---- MODULE Spec2Model ----
(***************************************************************************)
(* Model of unity-guid-corrector.py: class UnityGUIDCorrector.             *)
(*                                                                         *)
(* Text is a sequence of tokens.  A token is one character ("a", "b",      *)
(* "A", "B" are hexadecimal digits, "-" is any non-hex character, " " is   *)
(* white space) or the literal "guid:".  A file name is a sequence of      *)
(* tokens whose last token is the extension (".meta", ".unity", ...).      *)
(* A GUID has GuidLen hexadecimal digits (32 in the program).              *)
(***************************************************************************)
EXTENDS Integers, Sequences, FiniteSets, TLC

\* ------------------------------------------------------------------ bounds
\* Length of a GUID in the model (the program's regular expression asks 32).
GuidLen == 2
\* Longest content of a project file in the substitution universe.
MaxContentLen == 5
\* Most descriptor files in the decompiled / actual tree of the build universe.
MaxDecompiledMetas == 2
MaxActualMetas == 2
\* Most files in the project tree of the run universe.
MaxProjectFiles == 2

\* ------------------------------------------------------------------ state
VARIABLES
    decompiled_path,        \* the decompiled package tree   [exists, files]
    actual_path,            \* the actual package tree       [exists, files]
    project_path,           \* the Unity project tree        [exists, files]
    phase,                  \* position of correct_guids
    decompiled_meta_files,  \* build loop: <<>> before the scan, else <<set of indices left>>
    guid_mappings,          \* the dict, as a sequence of <<old, new>> in insertion order
    target_files,           \* <<>> before collect_target_files, else <<sequence of indices>>
    next_target,            \* substitution loop: position in target_files
    files_processed,
    files_modified,
    result,                 \* <<>> while running, else <<<<processed, modified>>>>
    run,                    \* 1: the run of correct_guids, 2: the substitution loop run again
    extracted,              \* history: descriptor files handed to extract_guid_from_meta
    written,                \* history: project files on which write_text was called
    write_failed,           \* history: some write_text raised
    initial_text,           \* history: the project files' texts at construction
    last                    \* history: the last call of replace_guids_in_file, <<>> if none

vars == <<decompiled_path, actual_path, project_path, phase, decompiled_meta_files,
          guid_mappings, target_files, next_target, files_processed, files_modified,
          result, run, extracted, written, write_failed, initial_text, last>>

trees == <<decompiled_path, actual_path, project_path>>
history == <<extracted, written, write_failed, initial_text, last>>

\* ------------------------------------------------------------- characters
HexDigits == {"a", "b", "A", "B"}

\* str.lower() on one character
Lower(ch) == IF ch = "A" THEN "a" ELSE IF ch = "B" THEN "b" ELSE ch

LowerAll(s) == [i \in 1..Len(s) |-> Lower(s[i])]

\* s[i .. i+n-1] are all hexadecimal digits
HexAt(s, i, n) == i + n - 1 <= Len(s) /\ \A j \in i..(i + n - 1) : s[j] \in HexDigits

\* ------------------------------------------------------------------ files
File(name, text, readable) == [name |-> name, text |-> text, readable |-> readable]

Tree(exists, files) == [exists |-> exists, files |-> files]

\* Path.suffix / Path.stem: the last token of a name is its extension
Suffix(name) == name[Len(name)]
Stem(name) == SubSeq(name, 1, Len(name) - 1)

\* Index of the "]" closing the character class opened at p[1] = "[", 0 if none.
\* As in fnmatch, a "]" right after the "[" belongs to the class.
ClassEnd(p) ==
    LET ends == {k \in 3..Len(p) : p[k] = "]"}
    IN  IF ends = {} THEN 0 ELSE CHOOSE k \in ends : \A m \in ends : k <= m

\* Path.rglob(pattern) on one file name: fnmatch of the name against the pattern,
\* with "*", "?" and "[...]" as wildcards.
RECURSIVE GlobMatch(_, _)
GlobMatch(p, s) ==
    IF p = <<>> THEN s = <<>>
    ELSE IF Head(p) = "*" THEN
        GlobMatch(Tail(p), s) \/ (s # <<>> /\ GlobMatch(p, Tail(s)))
    ELSE IF s = <<>> THEN FALSE
    ELSE IF Head(p) = "?" THEN GlobMatch(Tail(p), Tail(s))
    ELSE IF Head(p) = "[" /\ ClassEnd(p) # 0 THEN
        /\ \E k \in 2..(ClassEnd(p) - 1) : p[k] = Head(s)
        /\ GlobMatch(SubSeq(p, ClassEnd(p) + 1, Len(p)), Tail(s))
    ELSE Head(p) = Head(s) /\ GlobMatch(Tail(p), Tail(s))

\* path.rglob(pattern): the indices of the files of a tree the pattern matches
RGlob(tree, pattern) ==
    IF tree.exists
    THEN {i \in 1..Len(tree.files) : GlobMatch(pattern, tree.files[i].name)}
    ELSE {}

MetaPattern == <<"*", ".meta">>

\* ------------------------------------------------------------- extraction
\* First position after i that is not white space
RECURSIVE SkipSpace(_, _)
SkipSpace(s, i) == IF i <= Len(s) /\ s[i] = " " THEN SkipSpace(s, i + 1) ELSE i

\* re.search(r'guid:\s*([a-fA-F0-9]{32})', content): the positions where it matches
GuidMatches(s) == {i \in 1..Len(s) : s[i] = "guid:" /\ HexAt(s, SkipSpace(s, i + 1), GuidLen)}

\* extract_guid_from_meta: <<>> for None, else <<guid>>
ExtractGuid(f) ==
    IF ~f.readable THEN <<>>
    ELSE IF GuidMatches(f.text) = {} THEN <<>>
    ELSE LET i == CHOOSE k \in GuidMatches(f.text) : \A m \in GuidMatches(f.text) : k <= m
             j == SkipSpace(f.text, i + 1)
         IN  <<LowerAll(SubSeq(f.text, j, j + GuidLen - 1))>>

\* ------------------------------------------------------------ the mapping
Keys(m) == {m[i][1] : i \in 1..Len(m)}
Values(m) == {m[i][2] : i \in 1..Len(m)}

\* self.guid_mappings[k] = v: an existing key keeps its place in the order
SetItem(m, k, v) ==
    IF k \in Keys(m)
    THEN [i \in 1..Len(m) |-> IF m[i][1] = k THEN <<k, v>> ELSE m[i]]
    ELSE Append(m, <<k, v>>)

\* self.guid_mappings[k], for k a key
GetItem(m, k) == m[CHOOSE i \in 1..Len(m) : m[i][1] = k][2]

\* ----------------------------------------------------------- substitution
\* old occurs in s at position i
OccursAt(s, old, i) == i + Len(old) - 1 <= Len(s) /\ SubSeq(s, i, i + Len(old) - 1) = old

Occurs(s, old) == \E i \in 1..Len(s) : OccursAt(s, old, i)

\* str.replace(old, new) from position i on: leftmost occurrences, not overlapping
RECURSIVE ReplaceFrom(_, _, _, _)
ReplaceFrom(s, old, new, i) ==
    IF i > Len(s) THEN <<>>
    ELSE IF OccursAt(s, old, i) THEN new \o ReplaceFrom(s, old, new, i + Len(old))
    ELSE <<s[i]>> \o ReplaceFrom(s, old, new, i + 1)

\* faulty variant: str.replace(old, new, 1), only the first occurrence is replaced
StrReplaceOnce(s, old, new) ==
    LET at == {i \in 1..Len(s) : OccursAt(s, old, i)}
    IN  IF at = {} THEN s
        ELSE LET i == CHOOSE k \in at : \A m \in at : k <= m
             IN  SubSeq(s, 1, i - 1) \o new \o SubSeq(s, i + Len(old), Len(s))

StrReplace(s, old, new) == ReplaceFrom(s, old, new, 1)

\* faulty variant: only the first pair of the table is applied
ReplaceAllFirstPair(m, content) ==
    IF m = <<>> THEN content ELSE StrReplace(content, Head(m)[1], Head(m)[2])

\* for old_guid, new_guid in self.guid_mappings.items(): content = content.replace(...)
RECURSIVE ReplaceAll(_, _)
ReplaceAll(m, content) ==
    IF m = <<>> THEN content
    ELSE ReplaceAll(Tail(m), StrReplace(content, Head(m)[1], Head(m)[2]))

\* faulty variant: the file is written whether or not the content differs
AlwaysChanged(content, original) == TRUE

\* if content != original_content
ContentChanged(content, original) == content # original

\* -------------------------------------------------------------- universes
\* GUIDs of the model: x ... x y, GuidLen digits
Guid(x, y) == [i \in 1..GuidLen |-> IF i < GuidLen THEN x ELSE y]

Guids == {Guid(x, y) : x, y \in {"a", "b"}}

\* a descriptor text holding the line "guid: <g>"
GuidLine(g) == <<"guid:", " ">> \o g

MetaName(stem) == stem \o <<".meta">>

\* all sequences over S of length at most n
SeqsUpTo(S, n) == UNION {[1..k -> S] : k \in 0..n}

\* Run universe: small descriptor trees, a project tree of every shape.
RunDecompiledTrees ==
    { Tree(FALSE, <<>>), Tree(TRUE, <<>>),
      Tree(TRUE, <<File(MetaName(<<"F">>), GuidLine(Guid("a", "b")), TRUE)>>) }

RunActualTrees ==
    { Tree(FALSE, <<>>), Tree(TRUE, <<>>),
      Tree(TRUE, <<File(MetaName(<<"F">>), GuidLine(Guid("b", "a")), TRUE)>>),
      Tree(TRUE, <<File(MetaName(<<"G">>), GuidLine(Guid("b", "a")), TRUE)>>),
      Tree(TRUE, <<File(MetaName(<<"F">>), <<"-">>, TRUE)>>) }

RunProjectFiles ==
    { File(<<"P", ".meta">>, Guid("a", "b"), TRUE),
      File(<<"P", ".meta">>, <<"-">>, TRUE),
      File(<<"P", ".unity">>, Guid("a", "b"), TRUE),
      File(<<"P", ".prefab">>, <<>>, FALSE),
      File(<<"P", ".mat">>, <<"-">>, TRUE),
      File(<<"P", ".cs">>, Guid("a", "b"), TRUE) }

RunProjectTrees ==
    {Tree(FALSE, <<>>)} \cup {Tree(TRUE, fs) : fs \in SeqsUpTo(RunProjectFiles, MaxProjectFiles)}

\* Build universe: descriptor trees of every shape, one project file.  Stems
\* repeat, one stem holds glob wildcards, GUID text comes in both cases, and some
\* descriptors hold no GUID or cannot be read.
BuildDecompiledFiles ==
    { File(MetaName(<<"F">>), GuidLine(Guid("a", "b")), TRUE),
      File(MetaName(<<"F">>), <<"guid:">> \o Guid("B", "A"), TRUE),
      File(MetaName(<<"G">>), GuidLine(Guid("a", "b")), TRUE),
      File(MetaName(<<"[", "F", "]">>), <<"guid:">> \o Guid("B", "A"), TRUE),
      File(MetaName(<<"G">>), <<"-">>, TRUE),
      File(MetaName(<<"F">>), <<>>, FALSE) }

BuildActualFiles ==
    { File(MetaName(<<"F">>), GuidLine(Guid("a", "a")), TRUE),
      File(MetaName(<<"F">>), <<"guid:">> \o Guid("B", "B"), TRUE),
      File(MetaName(<<"G">>), <<"guid:">> \o Guid("B", "B"), TRUE),
      File(MetaName(<<"[", "F", "]">>), GuidLine(Guid("a", "a")), TRUE),
      File(MetaName(<<"F">>), <<"guid:", "-">>, TRUE),
      File(MetaName(<<"G">>), <<>>, FALSE) }

BuildDecompiledTrees ==
    {Tree(TRUE, fs) : fs \in SeqsUpTo(BuildDecompiledFiles, MaxDecompiledMetas)}

BuildActualTrees ==
    {Tree(TRUE, fs) : fs \in SeqsUpTo(BuildActualFiles, MaxActualMetas)}

BuildProjectTrees ==
    { Tree(TRUE, <<File(MetaName(<<"P">>), Guid("a", "b"), TRUE)>>) }

\* Substitution universe: every mapping table of one or two pairs, every content.
SubstDecompiledTrees ==
    { Tree(TRUE, <<File(MetaName(<<"F">>), GuidLine(Guid(x, y)), TRUE)>>) :
        x, y \in {"a", "b"} }
    \cup
    { Tree(TRUE, <<File(MetaName(<<"F">>), GuidLine(Guid("a", "b")), TRUE),
                   File(MetaName(<<"G">>), GuidLine(g), TRUE)>>) : g \in Guids }

SubstActualTrees ==
    { Tree(TRUE, <<File(MetaName(<<"F">>), GuidLine(g), TRUE),
                   File(MetaName(<<"G">>), GuidLine(h), TRUE)>>) : g, h \in Guids }
    \cup { Tree(TRUE, <<File(MetaName(<<"H">>), GuidLine(Guid("a", "a")), TRUE)>>),
           Tree(FALSE, <<>>) }

Contents == SeqsUpTo({"a", "b", "-"}, MaxContentLen)

SubstProjectTrees ==
    { Tree(TRUE, <<File(MetaName(<<"P">>), c, TRUE)>>) : c \in Contents }

\* ------------------------------------------------------------------- Init
\* __init__: the three paths are the inputs, the mapping table is empty
InitIn(D, A, P) ==
    /\ decompiled_path \in D
    /\ actual_path \in A
    /\ project_path \in P
    /\ phase = "Unvalidated"
    /\ decompiled_meta_files = <<>>
    /\ guid_mappings = <<>>
    /\ target_files = <<>>
    /\ next_target = 1
    /\ files_processed = 0
    /\ files_modified = 0
    /\ result = <<>>
    /\ run = 1
    /\ extracted = {}
    /\ written = {}
    /\ write_failed = FALSE
    /\ initial_text = [i \in 1..Len(project_path.files) |-> project_path.files[i].text]
    /\ last = <<>>

Init == InitIn(RunDecompiledTrees, RunActualTrees, RunProjectTrees)

InitBuild == InitIn(BuildDecompiledTrees, BuildActualTrees, BuildProjectTrees)

InitSubst == InitIn(SubstDecompiledTrees, SubstActualTrees, SubstProjectTrees)

\* ---------------------------------------------------------- validate_paths
\* faulty variant: the check for a descriptor file is left out
PathExists(tree) == tree.exists

\* one turn of the loop of validate_paths: the path exists and holds a descriptor
PathOk(tree) == tree.exists /\ RGlob(tree, MetaPattern) # {}

validate_paths == PathOk(decompiled_path) /\ PathOk(actual_path) /\ PathOk(project_path)

\* faulty variant: the test of validate_paths' result is inverted
ValidateFailInverted ==
    /\ phase = "Unvalidated"
    /\ validate_paths
    /\ phase' = "Done"
    /\ result' = <<<<0, 0>>>>
    /\ UNCHANGED <<trees, decompiled_meta_files, guid_mappings, target_files, next_target,
                   files_processed, files_modified, run, history>>

\* correct_guids: if not self.validate_paths(): return 0, 0
ValidateFail ==
    /\ phase = "Unvalidated"
    /\ ~validate_paths
    /\ phase' = "Done"
    /\ result' = <<<<0, 0>>>>
    /\ UNCHANGED <<trees, decompiled_meta_files, guid_mappings, target_files, next_target,
                   files_processed, files_modified, run, history>>

ValidateOk ==
    /\ phase = "Unvalidated"
    /\ validate_paths
    /\ phase' = "Validated"
    /\ UNCHANGED <<trees, decompiled_meta_files, guid_mappings, target_files, next_target,
                   files_processed, files_modified, result, run, history>>

\* ------------------------------------------------------ build_guid_mappings
\* decompiled_meta_files = list(self.decompiled_path.rglob("*.meta"))
BuildScan ==
    /\ phase = "Validated"
    /\ decompiled_meta_files = <<>>
    /\ decompiled_meta_files' = <<RGlob(decompiled_path, MetaPattern)>>
    /\ UNCHANGED <<trees, phase, guid_mappings, target_files, next_target,
                   files_processed, files_modified, result, run, history>>

Min(S) == CHOOSE k \in S : \A m \in S : k <= m

\* the first match of self.actual_path.rglob(f"{filename}.meta"), <<>> if none;
\* a tree's files are in the order in which rglob yields them
FirstActualMeta(filename) ==
    LET found == RGlob(actual_path, MetaName(filename))
    IN  IF found = {} THEN <<>> ELSE <<Min(found)>>

\* faulty variant: the pair is recorded the wrong way round
CorrelateSwapped(m, d, a) ==
    LET decompiled_guid == ExtractGuid(decompiled_path.files[d])
        actual_guid == ExtractGuid(actual_path.files[a])
    IN  IF decompiled_guid # <<>> /\ actual_guid # <<>>
        THEN SetItem(m, actual_guid[1], decompiled_guid[1])
        ELSE m

\* the table after the loop body for source descriptor d and its match a
Correlate(m, d, a) ==
    LET decompiled_guid == ExtractGuid(decompiled_path.files[d])
        actual_guid == ExtractGuid(actual_path.files[a])
    IN  IF decompiled_guid # <<>> /\ actual_guid # <<>>
        THEN SetItem(m, decompiled_guid[1], actual_guid[1])
        ELSE m

\* one turn of: for decompiled_meta in decompiled_meta_files
BuildIter ==
    /\ phase = "Validated"
    /\ decompiled_meta_files # <<>>
    /\ decompiled_meta_files[1] # {}
    /\ LET d == Min(decompiled_meta_files[1])
           actual_meta == FirstActualMeta(Stem(decompiled_path.files[d].name))
       IN  /\ decompiled_meta_files' = <<decompiled_meta_files[1] \ {d}>>
           /\ IF actual_meta # <<>>
              THEN /\ guid_mappings' = Correlate(guid_mappings, d, actual_meta[1])
                   /\ extracted' = extracted \cup {<<"decompiled", d>>, <<"actual", actual_meta[1]>>}
              ELSE UNCHANGED <<guid_mappings, extracted>>
    /\ UNCHANGED <<trees, phase, target_files, next_target, files_processed, files_modified,
                   result, run, written, write_failed, initial_text, last>>

\* the loop is over: build_guid_mappings returns
BuildDone ==
    /\ phase = "Validated"
    /\ decompiled_meta_files = <<{}>>
    /\ phase' = "MappingBuilt"
    /\ UNCHANGED <<trees, decompiled_meta_files, guid_mappings, target_files, next_target,
                   files_processed, files_modified, result, run, history>>

\* correct_guids: if not self.guid_mappings: return 0, 0
NoMappings ==
    /\ phase = "MappingBuilt"
    /\ guid_mappings = <<>>
    /\ phase' = "Done"
    /\ result' = <<<<0, 0>>>>
    /\ UNCHANGED <<trees, decompiled_meta_files, guid_mappings, target_files, next_target,
                   files_processed, files_modified, run, history>>

\* ------------------------------------------------------ collect_target_files
extensions == <<".meta", ".unity", ".asset", ".prefab", ".mat">>

\* the indices in S, ascending
RECURSIVE Ascending(_)
Ascending(S) == IF S = {} THEN <<>> ELSE <<Min(S)>> \o Ascending(S \ {Min(S)})

\* target_files.extend(list(self.project_path.rglob(f"*{ext}"))) for each extension
RECURSIVE CollectFrom(_)
CollectFrom(exts) ==
    IF exts = <<>> THEN <<>>
    ELSE Ascending(RGlob(project_path, <<"*", Head(exts)>>)) \o CollectFrom(Tail(exts))

\* faulty variant: the list of extensions misses ".meta"
collect_without_meta == CollectFrom(Tail(extensions))

collect_target_files == CollectFrom(extensions)

\* faulty variant: the test for an empty table is left out
CollectTargetFilesUnguarded ==
    /\ phase = "MappingBuilt"
    /\ target_files' = <<collect_target_files>>
    /\ next_target' = 1
    /\ files_processed' = 0
    /\ files_modified' = 0
    /\ phase' = "TargetsCollected"
    /\ UNCHANGED <<trees, decompiled_meta_files, guid_mappings, result, run, history>>

\* target_files = self.collect_target_files(), past the test for an empty table
CollectTargetFiles ==
    /\ phase = "MappingBuilt"
    /\ guid_mappings # <<>>
    /\ target_files' = <<collect_target_files>>
    /\ next_target' = 1
    /\ files_processed' = 0
    /\ files_modified' = 0
    /\ phase' = "TargetsCollected"
    /\ UNCHANGED <<trees, decompiled_meta_files, guid_mappings, result, run, history>>

\* ----------------------------------------------------- replace_guids_in_file
\* raised: read_text or write_text raised and the except clause ran
Call(f, read, original, wrote, raised, ret) ==
    [file |-> f, read |-> read, original |-> original, wrote |-> wrote,
     raised |-> raised, ret |-> ret]

\* what a write_text that raised can leave in the file: it was not opened (the old
\* text), or it was truncated and only part of the new text reached it
AfterFailedWrite(old, new) == {old} \cup {SubSeq(new, 1, k) : k \in 0..(Len(new) - 1)}

\* faulty variant: write_text leaves the file as it was
SetTextLost(tree, f, text) == tree

\* file_path.write_text(text)
SetText(tree, f, text) ==
    [tree EXCEPT !.files = [@ EXCEPT ![f] = [@ EXCEPT !.text = text]]]

\* faulty variant: True is returned although write_text raised
ReturnedOnAttempt(attempt, io) == attempt

\* replace_guids_in_file's return value: True only past a write_text that succeeded
Returned(attempt, io) == attempt /\ io = "ok"

\* one turn of the substitution loop of correct_guids, with the call of
\* replace_guids_in_file; io says whether write_text, if called, succeeds
ReplaceGuidsInFile(io) ==
    /\ phase = "TargetsCollected"
    /\ next_target <= Len(target_files[1])
    /\ LET f == target_files[1][next_target]
           file == project_path.files[f]
           \* read_text raises on an unreadable file: logged, return False
           read == file.readable
           original_content == IF read THEN file.text ELSE <<>>
           content == ReplaceAll(guid_mappings, original_content)
           attempt == read /\ ContentChanged(content, original_content)
           ret == Returned(attempt, io)
       IN  /\ io = "error" => attempt
           /\ files_processed' = files_processed + 1
           /\ files_modified' = IF ret THEN files_modified + 1 ELSE files_modified
           /\ next_target' = next_target + 1
           /\ last' = <<Call(f, read, original_content, attempt, ~read \/ io = "error", ret)>>
           /\ written' = IF attempt THEN written \cup {f} ELSE written
           /\ write_failed' = (write_failed \/ io = "error")
           /\ IF ~attempt THEN UNCHANGED project_path
              ELSE IF io = "ok" THEN project_path' = SetText(project_path, f, content)
              ELSE \E left \in AfterFailedWrite(file.text, content) :
                      project_path' = SetText(project_path, f, left)
    /\ UNCHANGED <<decompiled_path, actual_path, phase, decompiled_meta_files, guid_mappings,
                   target_files, result, run, extracted, initial_text>>

\* the substitution loop is over
LoopDone ==
    /\ phase = "TargetsCollected"
    /\ next_target > Len(target_files[1])
    /\ phase' = "Substituted"
    /\ UNCHANGED <<trees, decompiled_meta_files, guid_mappings, target_files, next_target,
                   files_processed, files_modified, result, run, history>>

\* return files_processed, files_modified
Return ==
    /\ phase = "Substituted"
    /\ phase' = "Done"
    /\ result' = <<<<files_processed, files_modified>>>>
    /\ UNCHANGED <<trees, decompiled_meta_files, guid_mappings, target_files, next_target,
                   files_processed, files_modified, run, history>>

\* The substitution loop of correct_guids run a second time, over the same target
\* files and with the same mapping table.
SubstituteAgain ==
    /\ phase = "Done"
    /\ run = 1
    /\ target_files # <<>>
    /\ run' = 2
    /\ phase' = "TargetsCollected"
    /\ next_target' = 1
    /\ files_processed' = 0
    /\ files_modified' = 0
    /\ result' = <<>>
    /\ UNCHANGED <<trees, decompiled_meta_files, guid_mappings, target_files, history>>

\* --------------------------------------------------------- specifications
Next ==
    \/ ValidateFail
    \/ ValidateOk
    \/ BuildScan
    \/ BuildIter
    \/ BuildDone
    \/ NoMappings
    \/ CollectTargetFiles
    \/ \E io \in {"ok", "error"} : ReplaceGuidsInFile(io)
    \/ LoopDone
    \/ Return

NextTwice == Next \/ SubstituteAgain

\* one run of correct_guids
Spec == Init /\ [][Next]_vars

\* one run; the program is sequential and every call returns
FairSpec == Spec /\ WF_vars(Next)

SpecBuild == InitBuild /\ [][Next]_vars

SpecSubst == InitSubst /\ [][Next]_vars

SpecTwice == InitSubst /\ [][NextTwice]_vars

\* ----------------------------------------------------------------- claims
\* the text on disk of the file of the last call of replace_guids_in_file
LastText == project_path.files[last[1].file].text

\* the last call met no read or write failure
LastCallClean == ~last[1].raised

\* some old GUID of the table occurs in s
SomeKeyOccurs(s) == \E k \in Keys(guid_mappings) : Occurs(s, k)

\* no old GUID of the table is the new GUID of a pair
NonInterfering(m) == Keys(m) \cap Values(m) = {}

\* GUIDs stand alone: no run of more than GuidLen hexadecimal digits
HexRunsBounded(s) == \A i \in 1..Len(s) : ~HexAt(s, i, GuidLen + 1)

\* every occurrence of an old GUID in the text read now holds its new GUID
EveryOccurrenceReplaced ==
    \A k \in Keys(guid_mappings) : \A i \in 1..Len(last[1].original) :
        OccursAt(last[1].original, k, i) => OccursAt(LastText, GetItem(guid_mappings, k), i)

NoKeyRemains == \A k \in Keys(guid_mappings) : ~Occurs(LastText, k)

\* C1 as stated: after replace_guids_in_file returns (no I/O failure), every
\* occurrence of an old GUID in the file has been replaced and no old GUID of the
\* table occurs in the file, for every table and every content.
C1_AsStated ==
    (last # <<>> /\ LastCallClean /\ SomeKeyOccurs(last[1].original))
        => (EveryOccurrenceReplaced /\ NoKeyRemains)

\* C1 amended: the same, for tables in which no old GUID is also a new GUID and
\* contents in which no run of hexadecimal digits is longer than a GUID.
C1_NoOldGuidRemains ==
    (/\ last # <<>>
     /\ LastCallClean
     /\ SomeKeyOccurs(last[1].original)
     /\ NonInterfering(guid_mappings)
     /\ HexRunsBounded(last[1].original))
        => (EveryOccurrenceReplaced /\ NoKeyRemains /\ last[1].ret)

\* two different old GUIDs occurred in the file and both were replaced
C1_Witness ==
    /\ last # <<>>
    /\ LastCallClean
    /\ NonInterfering(guid_mappings)
    /\ HexRunsBounded(last[1].original)
    /\ \A k \in Keys(guid_mappings) : Occurs(last[1].original, k)
    /\ Len(guid_mappings) = 2
    /\ last[1].ret
    /\ NoKeyRemains

\* C6: a file in which no old GUID occurs is reported unmodified, is not written
\* and keeps its text; a file is written only when the substituted content differs
\* from the content read.
C6_UntouchedWhenNoOldGuid ==
    last # <<>> =>
        /\ (last[1].read /\ ~SomeKeyOccurs(last[1].original))
              => (~last[1].ret /\ ~last[1].wrote /\ LastText = last[1].original
                  /\ last[1].file \notin written)
        /\ last[1].wrote => ReplaceAll(guid_mappings, last[1].original) # last[1].original
        /\ ~last[1].wrote => LastText = initial_text[last[1].file]

\* a file holding a new GUID but no old GUID was processed and left alone
C6_Witness ==
    /\ last # <<>>
    /\ last[1].read
    /\ Len(guid_mappings) = 2
    /\ ~SomeKeyOccurs(last[1].original)
    /\ \E v \in Values(guid_mappings) : Occurs(last[1].original, v)
    /\ ~last[1].ret
    /\ LastText = last[1].original

\* the orders in which the pairs of the table can be applied
Orders(m) == {[i \in 1..Len(m) |-> m[q[i]]] : q \in Permutations(1..Len(m))}

\* the last call's content and result are what order p of the pairs gives
SameUnderOrder(p) ==
    LET c == ReplaceAll(p, last[1].original)
    IN  /\ last[1].wrote = ContentChanged(c, last[1].original)
        /\ last[1].ret => LastText = c
        /\ ReplaceAll(guid_mappings, last[1].original) = c

\* C10 as stated: when no old GUID is also a new GUID, the content and the result
\* are the same for every order of the pairs, for every content.
C10_AsStated ==
    (last # <<>> /\ last[1].read /\ NonInterfering(guid_mappings))
        => \A p \in Orders(guid_mappings) : SameUnderOrder(p)

\* C10 amended: the same, for contents in which no run of hexadecimal digits is
\* longer than a GUID (occurrences of old GUIDs cannot overlap).
C10_OrderIndependent ==
    (/\ last # <<>>
     /\ last[1].read
     /\ NonInterfering(guid_mappings)
     /\ HexRunsBounded(last[1].original))
        => \A p \in Orders(guid_mappings) : SameUnderOrder(p)

\* a table of two pairs was applied to a file holding both old GUIDs
C10_Witness ==
    /\ last # <<>>
    /\ last[1].ret
    /\ NonInterfering(guid_mappings)
    /\ HexRunsBounded(last[1].original)
    /\ Len(guid_mappings) = 2
    /\ \A k \in Keys(guid_mappings) : Occurs(last[1].original, k)
    /\ \A p \in Orders(guid_mappings) : SameUnderOrder(p)

\* the second run of the substitution loop has made a call
SecondRunCalled == run = 2 /\ next_target > 1

\* C2 as stated: run a second time with the same table (no I/O failure), the
\* substitution loop modifies no file, for every table and every content.
C2_AsStated ==
    (SecondRunCalled /\ ~write_failed)
        => (files_modified = 0 /\ ~last[1].ret /\ ~last[1].wrote)

\* C2 amended: the same, for tables in which no old GUID is also a new GUID,
\* contents in which no run of hexadecimal digits is longer than a GUID, and a
\* first run in which no write failed.
C2_SecondRunModifiesNothing ==
    (/\ SecondRunCalled
     /\ ~write_failed
     /\ NonInterfering(guid_mappings)
     /\ \A f \in 1..Len(initial_text) : HexRunsBounded(initial_text[f]))
        => (/\ files_modified = 0
            /\ ~last[1].ret
            /\ ~last[1].wrote
            /\ phase = "Done" => result = <<<<Len(target_files[1]), 0>>>>)

\* the first run modified the file, the second run is over and modified nothing
C2_Witness ==
    /\ run = 2
    /\ phase = "Done"
    /\ ~write_failed
    /\ NonInterfering(guid_mappings)
    /\ \A f \in 1..Len(initial_text) : HexRunsBounded(initial_text[f])
    /\ written # {}
    /\ result = <<<<1, 0>>>>

\* build_guid_mappings has finished
MappingsBuilt ==
    \/ phase \in {"MappingBuilt", "TargetsCollected", "Substituted"}
    \/ phase = "Done" /\ decompiled_meta_files = <<{}>>

DecompiledMetas == {i \in 1..Len(decompiled_path.files) : Suffix(decompiled_path.files[i].name) = ".meta"}
ActualMetas == {i \in 1..Len(actual_path.files) : Suffix(actual_path.files[i].name) = ".meta"}

\* source descriptor d and reference descriptor a share a stem and both hold a GUID
Correlated(d, a) ==
    /\ Stem(decompiled_path.files[d].name) = Stem(actual_path.files[a].name)
    /\ ExtractGuid(decompiled_path.files[d]) # <<>>
    /\ ExtractGuid(actual_path.files[a]) # <<>>

\* the table maps the GUID of d to the GUID of a
MapsTo(d, a) ==
    LET old == ExtractGuid(decompiled_path.files[d])[1]
    IN  /\ old \in Keys(guid_mappings)
        /\ GetItem(guid_mappings, old) = ExtractGuid(actual_path.files[a])[1]

OnlyMatch(d, a) ==
    {i \in ActualMetas :
        GlobMatch(MetaName(Stem(decompiled_path.files[d].name)), actual_path.files[i].name)} = {a}

\* no other source descriptor holds the GUID of d
OnlyCarrier(d) ==
    \A e \in DecompiledMetas \ {d} :
        ExtractGuid(decompiled_path.files[e]) # ExtractGuid(decompiled_path.files[d])

NoDescriptor(tree) ==
    ~tree.exists \/ \A i \in 1..Len(tree.files) : Suffix(tree.files[i].name) # ".meta"

SomePathInvalid ==
    NoDescriptor(decompiled_path) \/ NoDescriptor(actual_path) \/ NoDescriptor(project_path)

ProjectUntouched ==
    /\ written = {}
    /\ \A f \in 1..Len(project_path.files) : project_path.files[f].text = initial_text[f]

\* C4: if a configured directory does not exist or holds no descriptor file, the
\* run goes straight to its end with result (0, 0): the table stays empty, no
\* descriptor is read, no target file is collected, no file is written.
C4_InvalidPathsHalt ==
    SomePathInvalid =>
        /\ phase \in {"Unvalidated", "Done"}
        /\ phase = "Done" => result = <<<<0, 0>>>>
        /\ guid_mappings = <<>>
        /\ decompiled_meta_files = <<>>
        /\ extracted = {}
        /\ target_files = <<>>
        /\ last = <<>>
        /\ ProjectUntouched

\* the run ended on a project tree without descriptor although the two descriptor
\* trees correlate and the project holds a file with an old GUID
C4_Witness ==
    /\ phase = "Done"
    /\ result = <<<<0, 0>>>>
    /\ NoDescriptor(project_path)
    /\ ~NoDescriptor(decompiled_path)
    /\ ~NoDescriptor(actual_path)
    /\ \E f \in 1..Len(project_path.files) :
          project_path.files[f].readable /\ Occurs(project_path.files[f].text, Guid("a", "b"))

\* C5: if validation passes and the build records no correlation, the run ends
\* with result (0, 0) before the project tree is touched: collect_target_files is
\* not called and no target file is read or written.
C5_EmptyMappingHalt ==
    (~SomePathInvalid /\ MappingsBuilt /\ guid_mappings = <<>>)
        => /\ phase \in {"MappingBuilt", "Done"}
           /\ phase = "Done" => result = <<<<0, 0>>>>
           /\ target_files = <<>>
           /\ last = <<>>
           /\ files_processed = 0
           /\ ProjectUntouched

\* the run ended on an empty table although the project holds a readable target
C5_Witness ==
    /\ ~SomePathInvalid
    /\ phase = "Done"
    /\ guid_mappings = <<>>
    /\ extracted # {}
    /\ result = <<<<0, 0>>>>
    /\ \E f \in 1..Len(project_path.files) :
          project_path.files[f].readable /\ Occurs(project_path.files[f].text, Guid("a", "b"))

\* the step is a call of replace_guids_in_file in which read_text or write_text raised
FailedCall ==
    /\ next_target' = next_target + 1
    /\ last' # <<>>
    /\ last'[1].raised

\* C7: a read or write failure on a target file is recovered: the file counts as
\* processed and not as modified, the loop goes on, and the result's processed
\* count is the number of target files, with modified <= processed.
C7_FailureRecovered ==
    /\ [][FailedCall => /\ files_processed' = files_processed + 1
                        /\ files_modified' = files_modified
                        /\ phase' = "TargetsCollected"
                        /\ result' = <<>>]_vars
    /\ [](target_files # <<>> =>
            /\ files_modified <= files_processed
            /\ files_processed = next_target - 1
            /\ phase = "Done" => result = <<<<Len(target_files[1]), files_modified>>>>)

\* a run with a read failure and a write failure ended, both files counted
C7_Witness ==
    /\ phase = "Done"
    /\ write_failed
    /\ \E f \in 1..Len(project_path.files) :
          /\ ~project_path.files[f].readable
          /\ \E e \in 1..Len(extensions) : Suffix(project_path.files[f].name) = extensions[e]
    /\ result = <<<<2, 0>>>>

\* C8: the result is (0, 0) exactly when validation failed or the table was
\* empty, and a run that reaches the substitution returns processed >= 1.
C8_ResultDistinguishes ==
    result # <<>> =>
        /\ result[1] = <<0, 0>> <=> (SomePathInvalid \/ guid_mappings = <<>>)
        /\ target_files # <<>> => result[1][1] >= 1

\* a run that reached the substitution and modified nothing returned (n, 0), n >= 1
C8_Witness ==
    /\ result # <<>>
    /\ target_files # <<>>
    /\ result[1][1] >= 1
    /\ result[1][2] = 0
    /\ ~write_failed

\* the steps the phase may take
PhaseStep ==
    \/ phase' = phase
    \/ phase = "Unvalidated" /\ phase' = "Validated" /\ ~SomePathInvalid
    \/ phase = "Unvalidated" /\ phase' = "Done" /\ SomePathInvalid
    \/ phase = "Validated" /\ phase' = "MappingBuilt"
    \/ phase = "MappingBuilt" /\ phase' = "TargetsCollected" /\ guid_mappings # <<>>
    \/ phase = "MappingBuilt" /\ phase' = "Done" /\ guid_mappings = <<>>
    \/ phase = "TargetsCollected" /\ phase' = "Substituted"
    \/ phase = "Substituted" /\ phase' = "Done"

\* C9: the run steps Unvalidated -> Validated -> MappingBuilt -> TargetsCollected
\* -> Substituted -> Done, leaving early for Done only from Unvalidated (validation
\* failed) or MappingBuilt (empty table); the table does not change once built, a
\* project file changes only in the substitution loop, and the run reaches Done.
C9_PhaseOrder ==
    /\ [][PhaseStep]_vars
    /\ [][phase \notin {"Unvalidated", "Validated"} => guid_mappings' = guid_mappings]_vars
    /\ [][(project_path' # project_path \/ written' # written)
            => (phase = "TargetsCollected" /\ phase' = "TargetsCollected")]_vars
    /\ [][phase = "Done" => phase' = "Done"]_vars
    /\ <>(phase = "Done")

\* a run went through every phase and modified a file
C9_Witness ==
    /\ phase = "Done"
    /\ result # <<>>
    /\ result[1][2] >= 1

====
